---------------------------- MODULE Spec2Model ----------------------------
(***************************************************************************)
(* A model of the OSRSTracker backend:                                     *)
(*   - backend/player_info.py: the hiscore decoder parse_hiscores_data and *)
(*     its caller get_skills (validate, fetch, decode, save);              *)
(*   - backend/item_prices.py: parse_price, parse_price_history and the    *)
(*     batch get_multiple_item_prices;                                     *)
(*   - backend/item_trends_graphs.py: format_price and the way a query is  *)
(*     resolved to an item.                                                *)
(*                                                                         *)
(* A Python str is a sequence of one-character strings.  The control       *)
(* characters are written as the tokens "LF", "CR" and "TAB".              *)
(***************************************************************************)
EXTENDS Integers, Sequences, FiniteSets, TLC

VARIABLES
    pc,           \* get_skills: the statement the run is at
    username,     \* get_skills: its argument
    response,     \* the hiscore service's answer: [lines, sep], or NoResponse
    data,         \* response.text, the str handed to parse_hiscores_data
    player_data,  \* get_skills: the local player_data (None, or the decoded dict)
    files,        \* the files under backend/: path -> content
    ppc,          \* price formatter: the statement the run is at
    price,        \* format_price's argument
    price_str,    \* the str format_price returned / parse_price is given
    parsed,       \* what parse_price returned (or the exception it raised)
    hist,         \* parse_price_history: its argument and what it returned
    resolver,     \* generate_graph_for_item / generate_comparison_graph: a query resolved
    batch,        \* get_multiple_item_prices: the loop over item_ids
    calls,        \* two decodes in progress, each with its locals
    runs,         \* get_skills runs in progress, each with its locals
    checked       \* validate_username and sanitize_username applied to a username

vars == <<pc, username, response, data, player_data, files,
          ppc, price, price_str, parsed,
          hist, resolver, batch, calls, runs, checked>>

\* The variables of the item, concurrency and username models.
otherVars == <<hist, resolver, batch, calls, runs, checked>>

None == "None"

-----------------------------------------------------------------------------
(* Bounds of the model.                                                    *)

\* How many of the 24 skills, 17 activities and 58 bosses the modelled
\* taxonomy keeps (a prefix of each list of the source).
MaxSkills == 2
MaxActivities == 1
MaxBosses == 1
\* A feed carries at most this many lines that differ from the regular
\* line of their position, and at most this many lines beyond the taxonomy.
MaxOdd == 1
MaxExtra == 1
\* The price texts given to parse_price have at most this many characters.
MaxPriceLen == 3
\* The prices given to format_price are built from the mantissas
\* 0..MaxSmall and a few chosen ones (see FormatInputs).
MaxSmall == 12
\* No price of the model exceeds this (TLC's integers have 32 bits).
MaxPrice == 2100000000

-----------------------------------------------------------------------------
(* Python str operations.                                                  *)

Digits == <<"0", "1", "2", "3", "4", "5", "6", "7", "8", "9">>

IsDigit(c) == \E i \in 1..10 : Digits[i] = c

DigitVal(c) == (CHOOSE i \in 1..10 : Digits[i] = c) - 1

\* str.isspace() of one character, over the characters of the model.
IsSpace(c) == c \in {" ", "TAB", "LF", "CR"}

RECURSIVE LStrip(_)
LStrip(s) ==
    IF s # <<>> /\ IsSpace(Head(s)) THEN LStrip(Tail(s)) ELSE s

RECURSIVE RStrip(_)
RStrip(s) ==
    IF s # <<>> /\ IsSpace(s[Len(s)]) THEN RStrip(SubSeq(s, 1, Len(s) - 1)) ELSE s

\* str.strip() without arguments: whitespace off both ends.
Strip(s) == RStrip(LStrip(s))

\* str.split(sep) for a one-character sep: the pieces between the
\* separators; an empty str gives one empty piece.
RECURSIVE SplitFrom(_, _, _)
SplitFrom(s, sep, cur) ==
    IF s = <<>> THEN <<cur>>
    ELSE IF Head(s) = sep THEN <<cur>> \o SplitFrom(Tail(s), sep, <<>>)
    ELSE SplitFrom(Tail(s), sep, Append(cur, Head(s)))

Split(s, sep) == SplitFrom(s, sep, <<>>)

\* str.replace(old, '') for a one-character old.
RECURSIVE Remove(_, _)
Remove(s, old) ==
    IF s = <<>> THEN <<>>
    ELSE IF Head(s) = old THEN Remove(Tail(s), old)
    ELSE <<Head(s)>> \o Remove(Tail(s), old)

RECURSIVE DigitsValue(_, _)
DigitsValue(s, acc) ==
    IF s = <<>> THEN acc ELSE DigitsValue(Tail(s), 10 * acc + DigitVal(Head(s)))

AllDigits(s) == s # <<>> /\ \A i \in 1..Len(s) : IsDigit(s[i])

\* int(s): whitespace off both ends, an optional sign, then decimal digits;
\* anything else raises ValueError.
PyInt(s) ==
    LET t == Strip(s)
        signed == t # <<>> /\ Head(t) \in {"-", "+"}
        body == IF signed THEN Tail(t) ELSE t
    IN  IF AllDigits(body)
        THEN [ok |-> TRUE,
              val |-> IF signed /\ Head(t) = "-" THEN 0 - DigitsValue(body, 0)
                      ELSE DigitsValue(body, 0)]
        ELSE [ok |-> FALSE, val |-> 0]

-----------------------------------------------------------------------------
(* parse_hiscores_data.                                                    *)

AllSkills ==
    <<"overall", "attack", "defence", "strength", "hitpoints",
      "ranged", "prayer", "magic", "cooking", "woodcutting",
      "fletching", "fishing", "firemaking", "crafting", "smithing",
      "mining", "herblore", "agility", "thieving", "slayer",
      "farming", "runecrafting", "hunter", "construction">>

AllActivities ==
    <<"league_points", "bounty_hunter_hunter", "bounty_hunter_rogue",
      "bounty_hunter_hunter_legacy", "bounty_hunter_rogue_legacy",
      "clue_scrolls_all", "clue_scrolls_beginner", "clue_scrolls_easy",
      "clue_scrolls_medium", "clue_scrolls_hard", "clue_scrolls_elite",
      "clue_scrolls_master", "lms_rank", "pvp_arena_rank", "soul_wars_zeal",
      "rifts_closed", "colosseum_glory">>

AllBosses ==
    <<"abyssal_sire", "alchemical_hydra", "artio", "barrows_chests",
      "bryophyta", "callisto", "calvarion", "cerberus", "chambers_of_xeric",
      "chambers_of_xeric_challenge_mode", "chaos_elemental", "chaos_fanatic">>

\* The taxonomy of the model: the first entries of each list.
skills == SubSeq(AllSkills, 1, MaxSkills)
activities == SubSeq(AllActivities, 1, MaxActivities)
bosses == SubSeq(AllBosses, 1, MaxBosses)

\* lines = data.strip().split('\n')
SplitLines(d) == Split(Strip(d), "LF")

\* if len(parts) >= 3, for a skill line.
SkillPartsStrict(parts) == Len(parts) > 3
SkillPartsOk(parts) == Len(parts) >= 3

\* if len(parts) >= 2, for an activity or a boss line.
PartsOk(parts) == Len(parts) >= 2

\* int(parts[k]) if parts[k] != '-1' else dflt
FieldOrDefault(part, dflt) ==
    IF part # <<"-", "1">> THEN PyInt(part) ELSE [ok |-> TRUE, val |-> dflt]

\* line_index += 1
Advance(line_index) == line_index + 1

\* The state of one decode: the cursor (0-based, as in the source), the
\* three dicts of parsed_data, and the exception that ended it, if any.
NewParse ==
    [line_index |-> 0, skills |-> <<>>, activities |-> <<>>, bosses |-> <<>>,
     exc |-> "none"]

\* One iteration of "for i, skill in enumerate(skills)".
SkillBody(st, skill, lines) ==
    IF st.line_index < Len(lines)
    THEN LET parts == Split(lines[st.line_index + 1], ",")
         IN  IF SkillPartsOk(parts)
             THEN LET rank == FieldOrDefault(parts[1], -1)
                      level == FieldOrDefault(parts[2], 1)
                      xp == FieldOrDefault(parts[3], 0)
                  IN  IF rank.ok /\ level.ok /\ xp.ok
                      THEN [st EXCEPT
                              !.skills = (skill :> [rank |-> rank.val,
                                                    level |-> level.val,
                                                    xp |-> xp.val]) @@ @,
                              !.line_index = Advance(@)]
                      ELSE [st EXCEPT !.exc = "ValueError"]
             ELSE [st EXCEPT !.line_index = Advance(@)]
    ELSE st

\* One iteration of "for activity in activities".
ActivityBody(st, activity, lines) ==
    IF st.line_index < Len(lines)
    THEN LET parts == Split(lines[st.line_index + 1], ",")
         IN  IF PartsOk(parts)
             THEN LET rank == FieldOrDefault(parts[1], -1)
                      score == FieldOrDefault(parts[2], 0)
                  IN  IF rank.ok /\ score.ok
                      THEN [st EXCEPT
                              !.activities = (activity :> [rank |-> rank.val,
                                                           score |-> score.val]) @@ @,
                              !.line_index = Advance(@)]
                      ELSE [st EXCEPT !.exc = "ValueError"]
             ELSE [st EXCEPT !.line_index = Advance(@)]
    ELSE st

\* One iteration of "for boss in bosses".
BossBody(st, boss, lines) ==
    IF st.line_index < Len(lines)
    THEN LET parts == Split(lines[st.line_index + 1], ",")
         IN  IF PartsOk(parts)
             THEN LET rank == FieldOrDefault(parts[1], -1)
                      kills == FieldOrDefault(parts[2], 0)
                  IN  IF rank.ok /\ kills.ok
                      THEN [st EXCEPT
                              !.bosses = (boss :> [rank |-> rank.val,
                                                   kills |-> kills.val]) @@ @,
                              !.line_index = Advance(@)]
                      ELSE [st EXCEPT !.exc = "ValueError"]
             ELSE [st EXCEPT !.line_index = Advance(@)]
    ELSE st

\* The three loops, each from entry i of its list on; an exception leaves
\* the function at once.
RECURSIVE SkillLoop(_, _, _)
SkillLoop(st, i, lines) ==
    IF i > Len(skills) \/ st.exc # "none" THEN st
    ELSE SkillLoop(SkillBody(st, skills[i], lines), i + 1, lines)

RECURSIVE ActivityLoop(_, _, _)
ActivityLoop(st, i, lines) ==
    IF i > Len(activities) \/ st.exc # "none" THEN st
    ELSE ActivityLoop(ActivityBody(st, activities[i], lines), i + 1, lines)

RECURSIVE BossLoop(_, _, _)
BossLoop(st, i, lines) ==
    IF i > Len(bosses) \/ st.exc # "none" THEN st
    ELSE BossLoop(BossBody(st, bosses[i], lines), i + 1, lines)

\* parse_hiscores_data(data): the final state of the decode; its skills,
\* activities and bosses are the returned dict unless exc is set.
parse_hiscores_data(d) ==
    LET lines == SplitLines(d)
    IN  BossLoop(ActivityLoop(SkillLoop(NewParse, 1, lines), 1, lines), 1, lines)

-----------------------------------------------------------------------------
(* The hiscore service's answers.                                          *)

RECURSIVE NatText(_)
NatText(n) ==
    IF n < 10 THEN <<Digits[n + 1]>> ELSE NatText(n \div 10) \o <<Digits[(n % 10) + 1]>>

\* The decimal text of an integer, as the service writes it.
IntText(n) == IF n < 0 THEN <<"-">> \o NatText(0 - n) ELSE NatText(n)

TaxonomySize == Len(skills) + Len(activities) + Len(bosses)

\* The regular line of position k: rank k, and level 5 and xp 9 for a
\* skill, score 4 for an activity or a boss.
DefaultLine(k) ==
    IF k <= Len(skills) THEN <<IntText(k), IntText(5), IntText(9)>>
    ELSE <<IntText(k), IntText(4)>>

Unranked3 == <<IntText(-1), IntText(-1), IntText(-1)>>
Unranked2 == <<IntText(-1), IntText(-1)>>
Blank == <<>>
OneField == <<IntText(7)>>
NonNumeric == <<<<"x">>, IntText(1), IntText(1)>>
ZeroLevel == <<IntText(8), IntText(0), IntText(-2)>>

\* The lines a feed may carry in place of a regular line.
OddLines == {Unranked3, Unranked2, Blank, OneField, NonNumeric, ZeroLevel}

OddPlacements(n) ==
    UNION { [S -> OddLines] : S \in {T \in SUBSET (1..n) : Cardinality(T) <= MaxOdd} }

\* The feeds of n lines: each line a sequence of fields.
FeedsOfLen(n) ==
    { [k \in 1..n |-> IF k \in DOMAIN o THEN o[k] ELSE DefaultLine(k)] :
        o \in OddPlacements(n) }

Feeds == UNION { FeedsOfLen(n) : n \in 0..(TaxonomySize + MaxExtra) }

LineEndings == {<<"LF">>, <<"CR", "LF">>}

RECURSIVE JoinFields(_)
JoinFields(fields) ==
    IF fields = <<>> THEN <<>>
    ELSE IF Len(fields) = 1 THEN fields[1]
    ELSE fields[1] \o <<",">> \o JoinFields(Tail(fields))

\* The text of a feed: every line followed by the line ending.
RECURSIVE EncodeFeed(_, _)
EncodeFeed(lines, sep) ==
    IF lines = <<>> THEN <<>>
    ELSE JoinFields(lines[1]) \o sep \o EncodeFeed(Tail(lines), sep)

NoResponse == [lines |-> <<>>, sep |-> <<>>, status |-> "none"]

-----------------------------------------------------------------------------
(* validate_username, sanitize_username, and the files get_skills writes.  *)

MaxUsernameLen == 12

NameChars ==
    {"a", "b", "Z", "7", " ", "_", "-"}

\* re.match(r'^[a-zA-Z0-9 _-]+$', username): "$" also matches before a
\* newline that ends the string.
RegexMatch(u) ==
    LET core == IF u # <<>> /\ u[Len(u)] = "LF" THEN SubSeq(u, 1, Len(u) - 1) ELSE u
    IN  core # <<>> /\ \A i \in 1..Len(core) : core[i] \in NameChars

validate_username(u) ==
    IF u = <<>> THEN FALSE
    ELSE IF Len(u) < 1 \/ Len(u) > MaxUsernameLen THEN FALSE
    ELSE IF ~RegexMatch(u) THEN FALSE
    ELSE TRUE

\* re.sub(r'[^a-zA-Z0-9 _-]', '_', username)
sanitize_username(u) ==
    [i \in 1..Len(u) |-> IF u[i] \in NameChars THEN u[i] ELSE "_"]

\* The usernames get_skills is called with.
Usernames == {<<"a", "b">>, <<"a", " ", "Z">>, <<"a", "!">>, <<>>}

SkillStatsPath == [dir |-> "backend", name |-> <<>>, file |-> "skill_stats.json"]

UserPath(u, file) == [dir |-> "backend", name |-> u, file |-> file]

\* The first write of save_to_json: json.dump(data['skills']) into
\* backend/skill_stats.json.
WriteSkillStatsFile(fs, d) == (SkillStatsPath :> d.skills) @@ fs

\* Its second write: backend/{username}_complete_data.json.
WriteCompleteDataFile(fs, d, u) ==
    LET name == sanitize_username(u)
    IN  (UserPath(name, "_complete_data.json") :>
           [username |-> name, skills |-> d.skills,
            activities |-> d.activities, bosses |-> d.bosses])
        @@ fs

\* save_to_json(data, username): the two files as they are after it.
save_to_json(fs, d, u) == WriteCompleteDataFile(WriteSkillStatsFile(fs, d), d, u)

\* The rows csv.DictWriter writes for the values of one dict, in the
\* order of the taxonomy (the insertion order of the dict).
RECURSIVE Rows(_, _)
Rows(dict, names) ==
    IF names = <<>> THEN <<>>
    ELSE IF Head(names) \in DOMAIN dict
         THEN <<dict[Head(names)]>> \o Rows(dict, Tail(names))
         ELSE Rows(dict, Tail(names))

\* save_to_csv(data, username): the three files as they are after it.
save_to_csv(fs, d, u) ==
    LET name == sanitize_username(u)
    IN  (UserPath(name, "_skills.csv") :> Rows(d.skills, skills))
        @@ (UserPath(name, "_activities.csv") :> Rows(d.activities, activities))
        @@ (UserPath(name, "_bosses.csv") :> Rows(d.bosses, bosses))
        @@ fs

-----------------------------------------------------------------------------
(* get_skills(username), one action per statement that fetches or writes.  *)

\* Nothing of the item, concurrency or username models is running.
Idle == [pc |-> "idle"]

OtherIdle ==
    /\ hist = Idle
    /\ resolver = Idle
    /\ batch = Idle
    /\ calls = Idle
    /\ runs = Idle
    /\ checked = Idle

PriceIdle ==
    /\ ppc = "idle"
    /\ price = [isNone |-> TRUE, v |-> 0]
    /\ price_str = <<>>
    /\ parsed = [kind |-> "unset", m |-> 0, e |-> 0, off |-> 0]

Init ==
    /\ pc = "validate"
    /\ username \in Usernames
    /\ response = NoResponse
    /\ data = <<>>
    /\ player_data = None
    /\ files = <<>>
    /\ PriceIdle
    /\ OtherIdle

\* Where get_skills goes after its first statement.
AfterValidateFetch(u) == "fetch"
AfterValidate(u) == IF validate_username(u) THEN "fetch" ELSE "returned"

\* if not validate_username(username): return
Validate ==
    /\ pc = "validate"
    /\ pc' = AfterValidate(username)
    /\ UNCHANGED <<username, response, data, player_data, files>>
    /\ UNCHANGED <<ppc, price, price_str, parsed>>
    /\ UNCHANGED otherVars

\* player_data = get_player_data(username), and the test of its result.
\* requests.get or raise_for_status raises RequestException, or the status
\* is a success other than 200, or the text is decoded; the ValueError of
\* a decode is caught nowhere and ends get_skills.
GetPlayerData ==
    /\ pc = "fetch"
    /\ \/ /\ response' = [NoResponse EXCEPT !.status = "RequestException"]
          /\ data' = <<>>
          /\ player_data' = None
          /\ pc' = "returned"
       \/ /\ response' = [NoResponse EXCEPT !.status = "not200"]
          /\ data' = <<>>
          /\ player_data' = None
          /\ pc' = "returned"
       \/ \E lines \in Feeds, sep \in LineEndings :
            LET text == EncodeFeed(lines, sep)
                st == parse_hiscores_data(text)
            IN  /\ response' = [lines |-> lines, sep |-> sep, status |-> "200"]
                /\ data' = text
                /\ IF st.exc = "none"
                   THEN /\ player_data' = [skills |-> st.skills,
                                           activities |-> st.activities,
                                           bosses |-> st.bosses]
                        /\ pc' = "save_json"
                   ELSE /\ player_data' = None
                        /\ pc' = "raised"
    /\ UNCHANGED <<username, files>>
    /\ UNCHANGED <<ppc, price, price_str, parsed>>
    /\ UNCHANGED otherVars

\* save_to_json(player_data, username)
SaveToJson ==
    /\ pc = "save_json"
    /\ files' = save_to_json(files, player_data, username)
    /\ pc' = "save_csv"
    /\ UNCHANGED <<username, response, data, player_data>>
    /\ UNCHANGED <<ppc, price, price_str, parsed>>
    /\ UNCHANGED otherVars

\* save_to_csv(player_data, username), and the prints that end get_skills.
SaveToCsv ==
    /\ pc = "save_csv"
    /\ files' = save_to_csv(files, player_data, username)
    /\ pc' = "done"
    /\ UNCHANGED <<username, response, data, player_data>>
    /\ UNCHANGED <<ppc, price, price_str, parsed>>
    /\ UNCHANGED otherVars

Next == Validate \/ GetPlayerData \/ SaveToJson \/ SaveToCsv

Spec == Init /\ [][Next]_vars

-----------------------------------------------------------------------------
(* parse_price (item_prices.py).                                           *)

\* str.lower() of one character, over the characters of the model.
LowerChar(c) ==
    CASE c = "K" -> "k" [] c = "M" -> "m" [] c = "B" -> "b"
      [] c = "A" -> "a" [] c = "N" -> "n" [] OTHER -> c

Lower(s) == [i \in 1..Len(s) |-> LowerChar(s[i])]

\* A float as a decimal m * 10^e, m not a multiple of 10 (0 is 0 * 10^0),
\* and off: 0 when the float is the binary64 nearest that decimal, -1 or 1
\* when it is the binary64 just below or just above that one.
RECURSIVE Normalize(_, _)
Normalize(m, e) ==
    IF m = 0 THEN [kind |-> "float", m |-> 0, e |-> 0, off |-> 0]
    ELSE IF m % 10 = 0 THEN Normalize(m \div 10, e + 1)
    ELSE [kind |-> "float", m |-> m, e |-> e, off |-> 0]

NaN == [kind |-> "nan", m |-> 0, e |-> 0, off |-> 0]

ValueError == [kind |-> "ValueError", m |-> 0, e |-> 0, off |-> 0]

IndexError == [kind |-> "IndexError", m |-> 0, e |-> 0, off |-> 0]

\* parse_price was not called yet.
NotParsed == [kind |-> "unset", m |-> 0, e |-> 0, off |-> 0]

RECURSIVE Pow5(_)
Pow5(k) == IF k = 0 THEN 1 ELSE 5 * Pow5(k - 1)

\* A decimal that is a binary64 itself: an integer, or one whose
\* denominator is a power of two.  float() of its text is exact.
ExactBinary(x) == x.e >= 0 \/ x.m % Pow5(0 - x.e) = 0

\* The decimal product x * 10^k.
TimesPow10(x, k) == IF x.kind = "float" THEN Normalize(x.m, x.e + k) ELSE x

\* The floats x * 10^k can be, for the float x that float() made of a
\* text: multipliers[price_str[-1]] is 10^3, 10^6 or 10^9.  An exact
\* binary gives the exact product.  Any other text was rounded by float()
\* and the product is rounded again, which gives the binary64 nearest the
\* decimal product or a neighbour of it; the 53-bit arithmetic that
\* decides which is beyond the integers of the model, so all three are
\* outcomes.
Times(x, k) ==
    IF x.kind # "float" \/ ExactBinary(x) THEN {TimesPow10(x, k)}
    ELSE {[TimesPow10(x, k) EXCEPT !.off = o] : o \in {-1, 0, 1}}

\* float(s): whitespace off both ends, an optional sign, then "nan", or
\* digits with at most one point and at least one digit; anything else
\* raises ValueError.  (No character of the model spells an exponent, an
\* underscore or an infinity.)
PyFloat(s) ==
    LET t == Strip(s)
        signed == t # <<>> /\ Head(t) \in {"-", "+"}
        neg == signed /\ Head(t) = "-"
        body == IF signed THEN Tail(t) ELSE t
        points == {i \in 1..Len(body) : body[i] = "."}
        digits == Remove(body, ".")
        fraction == IF points = {} THEN 0
                    ELSE Len(body) - (CHOOSE i \in points : TRUE)
    IN  IF Lower(body) = <<"n", "a", "n">> THEN NaN
        ELSE IF Cardinality(points) <= 1 /\ AllDigits(digits)
        THEN Normalize(IF neg THEN 0 - DigitsValue(digits, 0)
                       ELSE DigitsValue(digits, 0), 0 - fraction)
        ELSE ValueError

\* multipliers = {'k': 1000, 'm': 1000000, 'b': 1000000000}, as powers of 10.
Multipliers == {"k", "m", "b"}
MultiplierPowThousands(c) == 3
MultiplierPow(c) == CASE c = "k" -> 3 [] c = "m" -> 6 [] c = "b" -> 9

\* price_str = str(price_str).replace(',', '').replace(' ', '').lower()
CleanPrice(text) == Lower(Remove(Remove(text, ","), " "))

\* if price_str[-1] in multipliers, on the cleaned text.
HasSuffix(t) == t[Len(t)] \in Multipliers

\* parse_price(price_str): the floats it can return, or the exception it
\* raises.  Only the float() of the last statement is inside the try.
parse_price(text) ==
    IF text = <<>> THEN {Normalize(0, 0)}
    ELSE LET t == CleanPrice(text)
         IN  IF t = <<>> THEN {IndexError}
             ELSE IF HasSuffix(t)
                  THEN Times(PyFloat(SubSeq(t, 1, Len(t) - 1)),
                             MultiplierPow(t[Len(t)]))
                  ELSE IF PyFloat(t).kind = "ValueError" THEN {Normalize(0, 0)}
                       ELSE {PyFloat(t)}

-----------------------------------------------------------------------------
(* format_price (item_trends_graphs.py).                                   *)

Billion == 1000000000
Million == 1000000
Thousand == 1000

\* f"{n:,}" for n >= 0: the digits in groups of three.
RECURSIVE GroupedNat(_)
GroupedNat(n) ==
    IF n < 1000 THEN NatText(n)
    ELSE GroupedNat(n \div 1000) \o <<",">>
         \o <<Digits[((n \div 100) % 10) + 1], Digits[((n \div 10) % 10) + 1],
              Digits[(n % 10) + 1]>>

\* f"{price:,}"
Grouped(n) == IF n < 0 THEN <<"-">> \o GroupedNat(0 - n) ELSE GroupedNat(n)

\* The text of h hundredths with two decimals: "1.50" for 150.
Fixed2(h) == NatText(h \div 100) \o <<".", Digits[((h \div 10) % 10) + 1], Digits[(h % 10) + 1]>>

\* f"{price / unit:.2f}" for price >= unit: the quotient, a binary double,
\* rounded to hundredths.  Off a tie the nearest hundredth; on a tie that
\* the double holds exactly (an odd multiple of 1/8), the even hundredth;
\* on any other tie the double lies just above or just below it, and the
\* model admits both (up).
Hundredths(p, unit, up) ==
    LET step == unit \div 100
        q == p \div step
        r == p % step
    IN  IF 2 * r < step THEN q
        ELSE IF 2 * r > step THEN q + 1
        ELSE IF (2 * q + 1) % 25 = 0 THEN (IF q % 2 = 0 THEN q ELSE q + 1)
        ELSE IF up THEN q + 1 ELSE q

\* The tests of the if/elif chain.
AboveThousand(p) == p > Thousand
AtLeastBillion(p) == p >= Billion
AtLeastMillion(p) == p >= Million
AtLeastThousand(p) == p >= Thousand

\* An Optional[int]: None, or the integer v.
NonePrice == [isNone |-> TRUE, v |-> 0]
IntPrice(n) == [isNone |-> FALSE, v |-> n]

\* format_price(price), for each way a tie may fall.
FormatPriceUp(p, up) ==
    IF p.isNone THEN <<"N", "/", "A">>
    ELSE IF AtLeastBillion(p.v) THEN Fixed2(Hundredths(p.v, Billion, up)) \o <<"b">>
    ELSE IF AtLeastMillion(p.v) THEN Fixed2(Hundredths(p.v, Million, up)) \o <<"m">>
    ELSE IF AtLeastThousand(p.v) THEN Fixed2(Hundredths(p.v, Thousand, up)) \o <<"k">>
    ELSE Grouped(p.v)

\* format_price(price): the strings it may return (one, off a tie).
format_price(p) == {FormatPriceUp(p, up) : up \in BOOLEAN}

-----------------------------------------------------------------------------
(* The formatter and the parser applied to bounded inputs.                 *)

PriceChars == {"1", "5", ".", ",", " ", "TAB", "-", "k", "M", "b", "a"}

RECURSIVE TextsOfLen(_)
TextsOfLen(n) ==
    IF n = 0 THEN {<<>>}
    ELSE {Append(t, c) : t \in TextsOfLen(n - 1), c \in PriceChars}

\* The texts parse_price is given.
PriceTexts == UNION {TextsOfLen(n) : n \in 0..MaxPriceLen}

Mantissas == (0..MaxSmall) \cup {995, 999, 1000, 1005, 1125, 1375, 1500, 2000, 2340}

\* Prices whose rendering is half a hundredth of the unit away from them
\* and is not an exact binary.
HalfwayPrices == {524205, 4025000}

\* The prices format_price is given: None, and integers of every range,
\* on and around its thresholds, of both signs.
FormatInputs ==
    {NonePrice} \cup {IntPrice(v) : v \in HalfwayPrices} \cup
    UNION { { IntPrice(s * (t * u + d)) : s \in {1, -1}, d \in {-1, 0, 1},
                                t \in {m \in Mantissas : m <= MaxPrice \div u} } :
            u \in {1, Thousand, Million} }

HiscoreIdle ==
    /\ pc = "idle"
    /\ username = <<>>
    /\ response = NoResponse
    /\ data = <<>>
    /\ player_data = None
    /\ files = <<>>

InitPrice ==
    /\ HiscoreIdle
    /\ OtherIdle
    /\ parsed = NotParsed
    /\ \/ /\ ppc = "format"
          /\ price \in FormatInputs
          /\ price_str = <<>>
       \/ /\ ppc = "parse"
          /\ price = NonePrice
          /\ price_str \in PriceTexts

\* price_str = format_price(price)
FormatPrice ==
    /\ ppc = "format"
    /\ price_str' \in format_price(price)
    /\ ppc' = "parse"
    /\ UNCHANGED <<price, parsed>>
    /\ UNCHANGED <<pc, username, response, data, player_data, files>>
    /\ UNCHANGED otherVars

\* parsed = parse_price(price_str)
ParsePrice ==
    /\ ppc = "parse"
    /\ parsed' \in parse_price(price_str)
    /\ ppc' = "done"
    /\ UNCHANGED <<price, price_str>>
    /\ UNCHANGED <<pc, username, response, data, player_data, files>>
    /\ UNCHANGED otherVars

NextPrice == FormatPrice \/ ParsePrice

SpecPrice == InitPrice /\ [][NextPrice]_vars

-----------------------------------------------------------------------------
(* Vocabulary of the properties of the hiscore decoder.                    *)

LF == <<"LF">>
CRLF == <<"CR", "LF">>

Answered == response.status = "200"

\* get_skills holds a decoded dict (parse_hiscores_data returned).
Decoded == pc \in {"save_json", "save_csv", "done"}

Range(seq) == {seq[i] : i \in 1..Len(seq)}

\* An integer text as the service writes it, and the integer it stands for.
WellFormedField(f) == \E n \in -9..99 : IntText(n) = f
ValueOf(f) == CHOOSE n \in -9..99 : IntText(n) = f

IsSkillPos(k) == k <= Len(skills)
FieldsNeeded(k) == IF IsSkillPos(k) THEN 3 ELSE 2

WellFormedLine(k, line) ==
    /\ Len(line) = FieldsNeeded(k)
    /\ \A i \in 1..Len(line) : WellFormedField(line[i])

ShortLine(k, line) == Len(line) < FieldsNeeded(k)

\* The taxonomy entry of position k, and whether and how it was decoded.
HasEntry(pd, k) ==
    IF IsSkillPos(k) THEN skills[k] \in DOMAIN pd.skills
    ELSE IF k <= Len(skills) + Len(activities)
         THEN activities[k - Len(skills)] \in DOMAIN pd.activities
         ELSE bosses[k - Len(skills) - Len(activities)] \in DOMAIN pd.bosses

EntryAt(pd, k) ==
    IF IsSkillPos(k) THEN pd.skills[skills[k]]
    ELSE IF k <= Len(skills) + Len(activities)
         THEN pd.activities[activities[k - Len(skills)]]
         ELSE pd.bosses[bosses[k - Len(skills) - Len(activities)]]

Sentinel == IntText(-1)

WellFormedFeed ==
    /\ Answered
    /\ Len(response.lines) = TaxonomySize
    /\ \A k \in 1..TaxonomySize : WellFormedLine(k, response.lines[k])

-----------------------------------------------------------------------------
(* C1: a well-formed feed of exactly the taxonomy's line count is decoded  *)
(* without error into a result that holds every skill, activity and boss   *)
(* of the taxonomy, and the entry of position k carries the rank (and, for *)
(* a skill, the level) written on line k.                                  *)
C1_EveryEntryFromItsLine ==
    WellFormedFeed =>
        /\ Decoded
        /\ DOMAIN player_data.skills = Range(skills)
        /\ DOMAIN player_data.activities = Range(activities)
        /\ DOMAIN player_data.bosses = Range(bosses)
        /\ \A k \in 1..TaxonomySize :
             LET line == response.lines[k]
             IN  /\ EntryAt(player_data, k).rank = ValueOf(line[1])
                 /\ IsSkillPos(k) =>
                      EntryAt(player_data, k).level =
                        IF line[2] = Sentinel THEN 1 ELSE ValueOf(line[2])

C1_Witness ==
    /\ WellFormedFeed
    /\ pc = "done"
    /\ response.sep = CRLF
    /\ response.lines[1] = Unranked3
    /\ player_data.skills[skills[1]].rank = -1
    /\ player_data.bosses[bosses[Len(bosses)]].rank = TaxonomySize

(* C2: a feed with fewer lines than the taxonomy is never accepted: no     *)
(* file is written from it.  (The claim as stated; the code refutes it.)   *)
C2_ShortFeedNeverSaved ==
    (Answered /\ Len(response.lines) < TaxonomySize) => DOMAIN files = {}

(* C3: a record decoded from a line whose rank field is "-1" never has the *)
(* integer -1 as its rank.  (The claim as stated; the code refutes it.)    *)
C3_UnrankedIsNotMinusOne ==
    (WellFormedFeed /\ Decoded) =>
        \A k \in 1..TaxonomySize :
            response.lines[k][1] = Sentinel => EntryAt(player_data, k).rank # -1

(* C4: in a feed of the taxonomy's line count whose lines are well-formed  *)
(* or have too few fields, exactly the entries of the lines with too few   *)
(* fields are missing and every other entry carries the rank of its own    *)
(* line.  (The claim as stated; the code refutes it.)                      *)
C4_ShortLineOmitsOnlyItsEntry ==
    ( /\ Answered
      /\ Len(response.lines) = TaxonomySize
      /\ \A k \in 1..TaxonomySize :
           \/ WellFormedLine(k, response.lines[k])
           \/ ShortLine(k, response.lines[k]) )
    => /\ Decoded
       /\ \A k \in 1..TaxonomySize :
            IF ShortLine(k, response.lines[k])
            THEN ~HasEntry(player_data, k)
            ELSE /\ HasEntry(player_data, k)
                 /\ EntryAt(player_data, k).rank = ValueOf(response.lines[k][1])

\* What does hold of C4's case: the same, for feeds that do not start with
\* a blank line (the only short line that data.strip() removes).
ShortLineOmitsOnlyItsEntryUnlessLeadingBlank ==
    (response.lines # <<>> /\ response.lines[1] # Blank)
        => C4_ShortLineOmitsOnlyItsEntry

(* C5: a field that is not an integer never makes the decode fail as a     *)
(* whole.  (The claim as stated; the code refutes it.)                     *)
C5_BadFieldDoesNotFailDecode ==
    (Answered /\ \E k \in 1..Len(response.lines) : response.lines[k] = NonNumeric)
        => pc # "raised"

(* C6: the decode of a CRLF-separated feed equals the decode of the        *)
(* LF-separated feed of the same records.  (The claim as stated; the code  *)
(* refutes it.)                                                            *)
C6_CrlfDecodesAsLf ==
    (Answered /\ response.sep = CRLF) =>
        LET lf == parse_hiscores_data(EncodeFeed(response.lines, LF))
        IN  /\ (pc = "raised") <=> (lf.exc # "none")
            /\ Decoded =>
                 /\ player_data.skills = lf.skills
                 /\ player_data.activities = lf.activities
                 /\ player_data.bosses = lf.bosses

(* C7: every decoded skill record has level >= 1 and xp >= 0, and every    *)
(* activity or boss record has score or kills >= 0.  (The claim as stated; *)
(* the code refutes it.)                                                   *)
C7_RecordsInRange ==
    Decoded =>
        /\ \A n \in DOMAIN player_data.skills :
             player_data.skills[n].level >= 1 /\ player_data.skills[n].xp >= 0
        /\ \A n \in DOMAIN player_data.activities : player_data.activities[n].score >= 0
        /\ \A n \in DOMAIN player_data.bosses : player_data.bosses[n].kills >= 0

-----------------------------------------------------------------------------
(* Vocabulary of the properties of the price parser and formatter.         *)

\* parse_price was called on a text given to it (not on a formatted price).
ParsedText == ppc = "done" /\ price.isNone /\ price_str # <<"N", "/", "A">>

\* format_price was called on the integer price.v.
Formatted == ppc \in {"parse", "done"} /\ ~price.isNone

Zero == [kind |-> "float", m |-> 0, e |-> 0, off |-> 0]

\* The decimal a float is nearest to, or next to.
Decimal(x) == [x EXCEPT !.off = 0]

\* A text with its thousands separators and its whitespace taken out.
Bare(text) == Remove(Remove(Remove(text, ","), " "), "TAB")

\* The same with only the separators and the space characters taken out.
BareOfSpaces(text) == Remove(Remove(text, ","), " ")

\* A numeric body: digits with at most one point among them.
NumericBody(b) ==
    /\ \A i \in 1..Len(b) : IsDigit(b[i]) \/ b[i] = "."
    /\ Cardinality({i \in 1..Len(b) : b[i] = "."}) <= 1
    /\ \E i \in 1..Len(b) : IsDigit(b[i])

\* The number a numeric body writes, times 10^k.
RECURSIVE DecimalsAfterPoint(_)
DecimalsAfterPoint(b) ==
    IF b = <<>> THEN 0
    ELSE IF Head(b) = "." THEN Len(b) - 1
    ELSE DecimalsAfterPoint(Tail(b))

BodyTimesPow10(b, k) ==
    Normalize(DigitsValue(Remove(b, "."), 0), k - DecimalsAfterPoint(b))

\* What is left of the cleaned text once a final k, m or b is taken off.
Remainder(text) ==
    LET t == CleanPrice(text)
    IN  IF t # <<>> /\ t[Len(t)] \in Multipliers THEN SubSeq(t, 1, Len(t) - 1) ELSE t

\* The decimal exponent a final suffix stands for, in either letter case.
SuffixPow(c) ==
    CASE c \in {"k", "K"} -> 3 [] c \in {"m", "M"} -> 6 [] c \in {"b", "B"} -> 9
      [] OTHER -> 0

\* The value the claim of C9 gives a bare text: body times its suffix.
SuffixedValue(b) ==
    IF SuffixPow(b[Len(b)]) > 0
    THEN BodyTimesPow10(SubSeq(b, 1, Len(b) - 1), SuffixPow(b[Len(b)]))
    ELSE BodyTimesPow10(b, 0)

IsSuffixed(b) ==
    /\ b # <<>>
    /\ IF SuffixPow(b[Len(b)]) > 0 THEN NumericBody(SubSeq(b, 1, Len(b) - 1))
       ELSE NumericBody(b)

-----------------------------------------------------------------------------
(* C8: parse_price never raises, and returns 0 whenever what is left of    *)
(* the text after the suffix is taken off is not numeric.  (The claim as   *)
(* stated; the code refutes it.)                                           *)
C8_ParseNeverFails ==
    ParsedText =>
        /\ parsed.kind \notin {"ValueError", "IndexError"}
        /\ PyFloat(Remainder(price_str)).kind = "ValueError" => parsed = Zero

(* C9: a numeric body followed by k, m or b (either case), with thousands  *)
(* separators and whitespace (spaces or tabs) anywhere in the text, parses *)
(* to the body times 1e3, 1e6 or 1e9; without a suffix, to the body.       *)
(* (The claim as stated; the code refutes it.)                             *)
C9_SuffixedValue ==
    (ParsedText /\ IsSuffixed(Bare(price_str))) =>
        Decimal(parsed) = SuffixedValue(Bare(price_str))

\* What does hold of C9's case: the same, with space characters as the
\* only whitespace (a tab is neither removed nor, inside the text, accepted
\* by float()).
SuffixedValueWithSpaces ==
    (ParsedText /\ IsSuffixed(BareOfSpaces(price_str))) =>
        Decimal(parsed) = SuffixedValue(BareOfSpaces(price_str))

(* C10: format_price renders every integer, by its magnitude: below 1,000  *)
(* the grouped decimal digits without a suffix; from 1,000 the value in    *)
(* thousands, from 1,000,000 in millions, from 1,000,000,000 in billions,  *)
(* rounded to two decimals (off by at most half a hundredth of the unit),  *)
(* followed by "k", "m" or "b".                                            *)
Rendered(v, unit, suffix) ==
    \E h \in {v \div (unit \div 100), v \div (unit \div 100) + 1} :
        /\ 2 * (h * (unit \div 100) - v) <= unit \div 100
        /\ 2 * (v - h * (unit \div 100)) <= unit \div 100
        /\ price_str = Fixed2(h) \o <<suffix>>

-----------------------------------------------------------------------------
(* The round trip of a price through format_price and parse_price.         *)

RECURSIVE Pow10(_)
Pow10(k) == IF k = 0 THEN 1 ELSE 10 * Pow10(k - 1)

\* format_price was called on price.v and parse_price on what it returned.
RoundTripped == ppc = "done" /\ ~price.isNone

\* The integer a float of the model is nearest to (no negative exponent).
WholeValue(x) == x.m * Pow10(x.e)

\* Half a hundredth of the unit format_price renders v in.
Tolerance(v) ==
    IF v < 1000 THEN 0
    ELSE IF v < 1000000 THEN 5
    ELSE IF v < 1000000000 THEN 5000
    ELSE 5000000

\* x - v <= t and v - x <= t for the float x, whose distance from
\* WholeValue(x) is far below 1 and has the sign of x.off.
Within(x, v, t) ==
    /\ WholeValue(x) - v < t \/ (WholeValue(x) - v = t /\ x.off <= 0)
    /\ v - WholeValue(x) < t \/ (v - WholeValue(x) = t /\ x.off >= 0)

-----------------------------------------------------------------------------
(* parse_price_history (item_prices.py).                                   *)

\* A series has at most this many entries.
MaxEntries == 2

\* One item of daily.items() or average.items(): a key of the JSON object
\* and its price.
Entry(k, p) == [key |-> k, price |-> p]

\* datetime.fromtimestamp(timestamp / 1000).strftime('%Y-%m-%d'): the
\* calendar day the second timestamp / 1000 falls in, as the number of days
\* since the epoch (in UTC, for a timestamp that is not negative).
DateOf(timestamp) == (timestamp \div 1000) \div 86400

\* {'date': date, 'timestamp': int(timestamp), 'price': price}
HistoryPoint(entry) ==
    [date |-> DateOf(PyInt(entry.key).val),
     timestamp |-> PyInt(entry.key).val,
     price |-> entry.price]

\* list.sort(key=lambda x: x['timestamp']) is stable: a point goes in
\* before the first point of a greater timestamp.
RECURSIVE InsertByTimestamp(_, _)
InsertByTimestamp(sorted, p) ==
    IF sorted = <<>> THEN <<p>>
    ELSE IF Head(sorted).timestamp > p.timestamp THEN <<p>> \o sorted
    ELSE <<Head(sorted)>> \o InsertByTimestamp(Tail(sorted), p)

RECURSIVE SortByTimestamp(_, _)
SortByTimestamp(points, sorted) ==
    IF points = <<>> THEN sorted
    ELSE SortByTimestamp(Tail(points), InsertByTimestamp(sorted, Head(points)))

\* history_data.get(k, {}), the items of the dict in insertion order.
SeriesOf(history_data, k) ==
    IF k \in DOMAIN history_data THEN history_data[k] ELSE <<>>

\* int(timestamp) raises ValueError for a key of the series.
RaisesOn(entries) == \E i \in 1..Len(entries) : ~PyInt(entries[i].key).ok

\* The loop over one series and the sort after it.
ParseSeries(entries) ==
    SortByTimestamp([i \in 1..Len(entries) |-> HistoryPoint(entries[i])], <<>>)

\* parse_price_history(history_data): the dict returned, or the ValueError
\* int() raised.
parse_price_history(history_data) ==
    IF RaisesOn(SeriesOf(history_data, "daily"))
       \/ RaisesOn(SeriesOf(history_data, "average"))
    THEN [kind |-> "ValueError", daily |-> <<>>, average |-> <<>>]
    ELSE [kind |-> "dict",
          daily |-> ParseSeries(SeriesOf(history_data, "daily")),
          average |-> ParseSeries(SeriesOf(history_data, "average"))]

\* The keys a series is given: timestamps in milliseconds as JSON writes
\* them, one with a leading zero, and one that is not a number.
KeyTexts ==
    { <<"1", "0", "0", "0">>,
      <<"2", "0", "0", "0">>,
      <<"0", "1", "0", "0", "0">>,
      <<"8", "6", "4", "0", "0", "0", "0", "0">>,
      <<"1", "7", "2", "8", "0", "0", "0", "0", "0">>,
      <<"x">> }

HistoryPrices == {100, 110}

\* The series of n entries: the keys of a JSON object are distinct strings.
RECURSIVE SeriesOfLen(_)
SeriesOfLen(n) ==
    IF n = 0 THEN {<<>>}
    ELSE { Append(s, Entry(k, p)) :
             s \in SeriesOfLen(n - 1), k \in KeyTexts, p \in HistoryPrices }

DistinctKeys(s) == \A i, j \in 1..Len(s) : s[i].key = s[j].key => i = j

Series == { s \in UNION { SeriesOfLen(n) : n \in 0..MaxEntries } : DistinctKeys(s) }

\* The average series of the payloads: none, or one of two orders.
AverageSeries ==
    { <<>>,
      <<Entry(<<"2", "0", "0", "0">>, 110), Entry(<<"1", "0", "0", "0">>, 100)>> }

Histories ==
    { [daily |-> d, average |-> a] : d \in Series, a \in AverageSeries }
    \cup { [daily |-> d] : d \in Series }

NoHistory == [kind |-> "unset", daily |-> <<>>, average |-> <<>>]

InitHistory ==
    /\ HiscoreIdle
    /\ PriceIdle
    /\ resolver = Idle /\ batch = Idle /\ calls = Idle /\ runs = Idle /\ checked = Idle
    /\ \E h \in Histories :
         hist = [pc |-> "call", history_data |-> h, result |-> NoHistory]

\* result = parse_price_history(history_data)
ParsePriceHistory ==
    /\ hist.pc = "call"
    /\ hist' = [hist EXCEPT !.pc = "done",
                            !.result = parse_price_history(hist.history_data)]
    /\ UNCHANGED <<pc, username, response, data, player_data, files>>
    /\ UNCHANGED <<ppc, price, price_str, parsed>>
    /\ UNCHANGED <<resolver, batch, calls, runs, checked>>

NextHistory == ParsePriceHistory

SpecHistory == InitHistory /\ [][NextHistory]_vars

\* The integer a key writes: its digits, whitespace and a sign allowed.
KeyValue(k) == DigitsValue(Remove(Remove(Strip(k), "+"), "-"), 0)

\* The point the claim gives an entry.
PointOf(entry) ==
    [date |-> (KeyValue(entry.key) \div 1000) \div 86400,
     timestamp |-> KeyValue(entry.key),
     price |-> entry.price]

\* out holds exactly one point per entry of in.
OnePointPerEntry(in, out) ==
    /\ Len(out) = Len(in)
    /\ \E f \in [1..Len(in) -> 1..Len(in)] :
         /\ \A i, j \in 1..Len(in) : f[i] = f[j] => i = j
         /\ \A i \in 1..Len(in) : out[f[i]] = PointOf(in[i])

StrictlyIncreasing(out) ==
    \A i \in 1..(Len(out) - 1) : out[i].timestamp < out[i + 1].timestamp

NonDecreasing(out) ==
    \A i \in 1..(Len(out) - 1) : out[i].timestamp <= out[i + 1].timestamp

HistoryParsed == hist.pc = "done"

\* Every key of the payload is the text of an integer.
IntegerKeys ==
    \A k \in {"daily", "average"} :
        \A i \in 1..Len(SeriesOf(hist.history_data, k)) :
            AllDigits(SeriesOf(hist.history_data, k)[i].key)

(* C12: for the daily and the average series, parse_price_history returns  *)
(* exactly one point per entry of the mapping (timestamp the integer value *)
(* of the key, price unchanged, date from timestamp / 1000), in a sequence *)
(* strictly increasing by timestamp, whatever the order of the keys.  (The *)
(* claim as stated; the code refutes it.)                                  *)
C12_OnePointPerEntryStrictlyIncreasing ==
    (HistoryParsed /\ IntegerKeys) =>
        /\ hist.result.kind = "dict"
        /\ \A k \in {"daily", "average"} :
             /\ OnePointPerEntry(SeriesOf(hist.history_data, k), hist.result[k])
             /\ StrictlyIncreasing(hist.result[k])

\* What does hold of C12's case: when every key is an integer text the
\* call returns one point per entry in non-decreasing order, strictly
\* increasing when the integer values of the keys are distinct.
OnePointPerEntrySorted ==
    (HistoryParsed /\ IntegerKeys) =>
        /\ hist.result.kind = "dict"
        /\ \A k \in {"daily", "average"} :
             LET in == SeriesOf(hist.history_data, k)
             IN  /\ OnePointPerEntry(in, hist.result[k])
                 /\ NonDecreasing(hist.result[k])
                 /\ (\A i, j \in 1..Len(in) :
                        KeyValue(in[i].key) = KeyValue(in[j].key) => i = j)
                    => StrictlyIncreasing(hist.result[k])

-----------------------------------------------------------------------------
(* How generate_graph_for_item and generate_comparison_graph resolve a     *)
(* query to an item (item_trends_graphs.py).  The lookups they import from *)
(* item_prices are modelled as spec.md 4.3 describes them.                 *)

\* A query has at most this many characters.
MaxQueryLen == 2

Item(i, n) == [id |-> i, name |-> n]

\* No item: item_info is None, or item_info was never assigned.
NoItem == [id |-> 0 - 1, name |-> <<>>]

\* get_item_by_id(item_mapping, item_id): the item of that id, or None.
get_item_by_id(item_mapping, item_id) ==
    IF \E i \in 1..Len(item_mapping) : item_mapping[i].id = item_id
    THEN item_mapping[CHOOSE i \in 1..Len(item_mapping) : item_mapping[i].id = item_id]
    ELSE NoItem

\* q occurs in name.
Contains(name, q) ==
    \E i \in 0..(Len(name) - Len(q)) : SubSeq(name, i + 1, i + Len(q)) = q

\* search_item_by_name(item_mapping, query): the items whose name contains
\* the query, letter case aside, in the order of the mapping.
search_item_by_name(item_mapping, query) ==
    SelectSeq(item_mapping, LAMBDA it : Contains(Lower(it.name), Lower(query)))

\* What a caller has once the query is dealt with: how it goes on ("proceed"
\* with item, "return" of "" from generate_graph_for_item, "continue" of the
\* loop of generate_comparison_graph), the matches it hands on, whether
\* search_item_by_name was called, and the message printed with the items
\* it lists.
Outcome(exit, item, searched, printed, listed) ==
    [exit |-> exit, item |-> item, matches |-> <<>>, searched |-> searched,
     printed |-> printed, listed |-> listed]

NoOutcome == Outcome("none", NoItem, FALSE, "", <<>>)

\* How each caller leaves a query it does not go on with.
GiveUp(caller) == IF caller = "generate_graph_for_item" THEN "return" ELSE "continue"

\* The try of either caller with a miss answered by the name search.
LookupByIdThenName(caller, item_mapping, item_id) ==
    LET item_info == get_item_by_id(item_mapping, item_id)
        matches == search_item_by_name(item_mapping, NatText(item_id))
    IN  IF item_info # NoItem THEN Outcome("proceed", item_info, FALSE, "", <<>>)
        ELSE IF Len(matches) = 1 THEN Outcome("proceed", matches[1], TRUE, "", <<>>)
        ELSE Outcome(GiveUp(caller), NoItem, TRUE, "not found", <<>>)

\* The try of either caller once int() returned item_id.
LookupById(caller, item_mapping, item_id) ==
    LET item_info == get_item_by_id(item_mapping, item_id)
    IN  IF item_info = NoItem
        THEN Outcome(GiveUp(caller), NoItem, FALSE, "not found", <<>>)
        ELSE Outcome("proceed", item_info, FALSE, "", <<>>)

\* The first n items of a list: matches[:n].
FirstOf(matches, n) == SubSeq(matches, 1, IF Len(matches) < n THEN Len(matches) ELSE n)

\* The except ValueError of either caller.
SearchByName(caller, item_mapping, query) ==
    LET matches == search_item_by_name(item_mapping, query)
    IN  IF matches = <<>>
        THEN Outcome(GiveUp(caller), NoItem, TRUE, "No items found", <<>>)
        ELSE IF Len(matches) > 1
        THEN IF caller = "generate_graph_for_item"
             THEN Outcome("return", NoItem, TRUE, "Found matches", FirstOf(matches, 10))
             ELSE Outcome("proceed", matches[1], TRUE,
                          "Multiple matches, using first", FirstOf(matches, 1))
        ELSE Outcome("proceed", matches[1], TRUE, "", <<>>)

\* try: item_id = int(query) ... except ValueError: ...
Resolve(caller, item_mapping, query) ==
    IF PyInt(query).ok
    THEN LookupById(caller, item_mapping, PyInt(query).val)
    ELSE SearchByName(caller, item_mapping, query)

QueryChars == {"a", "b", "B", "7", "1", " "}

RECURSIVE QueriesOfLen(_)
QueriesOfLen(n) ==
    IF n = 0 THEN {<<>>}
    ELSE {Append(q, c) : q \in QueriesOfLen(n - 1), c \in QueryChars}

Queries == UNION {QueriesOfLen(n) : n \in 0..MaxQueryLen}

\* Two mappings: one with no item of id 7 and a name that holds a 7, one
\* with an item of id 7 and another item named "7".
Mappings ==
    { <<Item(1, <<"a", "b">>), Item(2, <<"a", "B", "7">>), Item(3, <<"b">>)>>,
      <<Item(7, <<"a">>), Item(1, <<"7">>)>> }

Callers == {"generate_graph_for_item", "generate_comparison_graph"}

InitResolver ==
    /\ HiscoreIdle
    /\ PriceIdle
    /\ hist = Idle /\ batch = Idle /\ calls = Idle /\ runs = Idle /\ checked = Idle
    /\ \E c \in Callers, m \in Mappings, q \in Queries :
         resolver = [pc |-> "call", caller |-> c, item_mapping |-> m,
                     query |-> q, outcome |-> NoOutcome]

\* generate_graph_for_item(item_name_or_id), up to the item it goes on with.
GenerateGraphForItem ==
    /\ resolver.pc = "call"
    /\ resolver.caller = "generate_graph_for_item"
    /\ resolver' = [resolver EXCEPT
                      !.pc = "resolved",
                      !.outcome = Resolve("generate_graph_for_item",
                                          resolver.item_mapping, resolver.query)]
    /\ UNCHANGED <<pc, username, response, data, player_data, files>>
    /\ UNCHANGED <<ppc, price, price_str, parsed>>
    /\ UNCHANGED <<hist, batch, calls, runs, checked>>

\* One turn of the loop of generate_comparison_graph, up to the item it
\* goes on with.
GenerateComparisonGraph ==
    /\ resolver.pc = "call"
    /\ resolver.caller = "generate_comparison_graph"
    /\ resolver' = [resolver EXCEPT
                      !.pc = "resolved",
                      !.outcome = Resolve("generate_comparison_graph",
                                          resolver.item_mapping, resolver.query)]
    /\ UNCHANGED <<pc, username, response, data, player_data, files>>
    /\ UNCHANGED <<ppc, price, price_str, parsed>>
    /\ UNCHANGED <<hist, batch, calls, runs, checked>>

NextResolver == GenerateGraphForItem \/ GenerateComparisonGraph

SpecResolver == InitResolver /\ [][NextResolver]_vars

Resolved == resolver.pc = "resolved"

NumericQuery == PyInt(resolver.query).ok

\* The items the name search finds for the query.
NameMatches == search_item_by_name(resolver.item_mapping, resolver.query)

\* What the caller's code gets from the resolution, the prints aside.
Reported(o) == [exit |-> o.exit, item |-> o.item, matches |-> o.matches]

\* What it gets when nothing was found.
NotFoundReport(caller) == [exit |-> GiveUp(caller), item |-> NoItem, matches |-> <<>>]

(* C13: for a query that is not a number the resolution has three          *)
(* distinguishable outcomes: no name match is NotFound, one match is Exact *)
(* with that item, several matches are Ambiguous with every match handed   *)
(* on, never gone on with as if the first match were exact, and never the  *)
(* same result as NotFound.  (The claim as stated; the code refutes it.)   *)
C13_ThreeWayOutcome ==
    (Resolved /\ ~NumericQuery) =>
        /\ Len(NameMatches) = 0 =>
             Reported(resolver.outcome) = NotFoundReport(resolver.caller)
        /\ Len(NameMatches) = 1 =>
             /\ resolver.outcome.exit = "proceed"
             /\ resolver.outcome.item = NameMatches[1]
        /\ Len(NameMatches) > 1 =>
             /\ resolver.outcome.exit # "proceed"
             /\ resolver.outcome.matches = NameMatches
             /\ Reported(resolver.outcome) # NotFoundReport(resolver.caller)

\* What does hold of C13's case: no match and one match are told apart.
NoneOrOneMatch ==
    (Resolved /\ ~NumericQuery) =>
        /\ Len(NameMatches) = 0 =>
             Reported(resolver.outcome) = NotFoundReport(resolver.caller)
        /\ Len(NameMatches) = 1 =>
             /\ resolver.outcome.exit = "proceed"
             /\ resolver.outcome.item = NameMatches[1]

(* C14: when the query parses as an integer it is looked up by id only: a  *)
(* hit goes on with the item of that id, a miss is NotFound, and the name  *)
(* search is not called, even when an item's name contains the digits.     *)
C14_NumericQueryByIdOnly ==
    (Resolved /\ NumericQuery) =>
        LET item_id == PyInt(resolver.query).val
            hit == \E i \in 1..Len(resolver.item_mapping) :
                       resolver.item_mapping[i].id = item_id
        IN  /\ ~resolver.outcome.searched
            /\ hit => /\ resolver.outcome.exit = "proceed"
                      /\ resolver.outcome.item.id = item_id
            /\ ~hit => Reported(resolver.outcome) = NotFoundReport(resolver.caller)

\* The query "7" on a mapping with no id 7 and the name "aB7": not found.
C14_Witness ==
    /\ Resolved
    /\ resolver.query = <<"7">>
    /\ Len(NameMatches) = 1
    /\ get_item_by_id(resolver.item_mapping, 7) = NoItem
    /\ resolver.outcome.exit = "return"
    /\ ~resolver.outcome.searched

-----------------------------------------------------------------------------
(* get_multiple_item_prices and what it calls (item_prices.py).            *)

\* A batch has at most this many item ids.
MaxItems == 2

\* item_names: the names the caller has, by item id.  Id 2 has none.
item_names == [i \in {1} |-> <<"w", "h", "i", "p">>]

ItemIds == {1, 2}

RECURSIVE BatchesOfLen(_)
BatchesOfLen(n) ==
    IF n = 0 THEN {<<>>}
    ELSE {Append(b, i) : b \in BatchesOfLen(n - 1), i \in ItemIds}

\* No str: the dict has no such key, or the value is None.
NoName == <<"None">>

\* What fetch_item_detail returns: None when the request or its JSON
\* fails, or the item's dict: its name, if it has one, and the price
\* texts of 'current' and 'today'.
NoDetail == [fetched |-> FALSE, name |-> NoName, current |-> <<>>, today |-> <<>>]

Detail(n, c, t) == [fetched |-> TRUE, name |-> n, current |-> c, today |-> t]

Details ==
    { NoDetail,
      Detail(<<"w">>, <<"1", ".", "5", "k">>, <<"5">>),
      Detail(NoName, <<"1", "2", "0">>, <<"0">>),
      Detail(<<"w">>, <<"k">>, <<"0">>),
      Detail(<<"w">>, <<"7">>, <<",">>) }

\* What fetch_item_price_history returns: None, or the payload.
FetchedHistories ==
    { [fetched |-> FALSE, payload |-> [daily |-> <<>>]],
      [fetched |-> TRUE,
       payload |-> [daily |-> <<Entry(<<"2", "0", "0", "0">>, 110),
                               Entry(<<"1", "0", "0", "0">>, 100)>>,
                    average |-> <<>>]],
      [fetched |-> TRUE, payload |-> [daily |-> <<Entry(<<"x">>, 100)>>]] }

\* item_name or detail.get('name', f'Item_{item_id}')
ItemName(item_id, item_name, detail) ==
    IF item_name # NoName /\ item_name # <<>> THEN item_name
    ELSE IF detail.name # NoName THEN detail.name
    ELSE <<"I", "t", "e", "m", "_">> \o NatText(item_id)

\* item_names.get(item_id)
NameGiven(item_id) ==
    IF item_id \in DOMAIN item_names THEN item_names[item_id] ELSE NoName

\* if history: a payload that was fetched and is not the empty dict.
Truthy(history) == history.fetched /\ history.payload # [daily |-> <<>>]

\* The exception get_item_price_data raises, in the order its statements
\* run: parse_price of the current price, of today's price, then
\* parse_price_history; "none" when it returns.
Raises(detail, history, cp, tp) ==
    IF cp.kind \in {"ValueError", "IndexError"} THEN cp.kind
    ELSE IF tp.kind \in {"ValueError", "IndexError"} THEN tp.kind
    ELSE IF Truthy(history) /\ parse_price_history(history.payload).kind = "ValueError"
    THEN "ValueError"
    ELSE "none"

\* The price_data dict of get_item_price_data, cp and tp being what
\* parse_price made of the two price texts.
PriceData(item_id, item_name, detail, history, cp, tp) ==
    [item_id |-> item_id,
     item_name |-> ItemName(item_id, item_name, detail),
     current_price |-> [price |-> cp, price_str |-> detail.current],
     today |-> [price |-> tp, price_str |-> detail.today],
     price_history |-> IF Truthy(history) THEN parse_price_history(history.payload)
                       ELSE NoHistory]

\* save_item_price_json: the file f"{item_id}_{item_name}.json", the
\* spaces, slashes and backslashes of the name replaced by "_".
ItemFile(price_data) ==
    [item_id |-> price_data.item_id,
     item_name |-> [i \in 1..Len(price_data.item_name) |->
                      IF price_data.item_name[i] \in {" ", "/", "\\"} THEN "_"
                      ELSE price_data.item_name[i]]]

InitBatch ==
    /\ HiscoreIdle
    /\ PriceIdle
    /\ hist = Idle /\ resolver = Idle /\ calls = Idle /\ runs = Idle /\ checked = Idle
    /\ \E ids \in UNION {BatchesOfLen(n) : n \in 0..MaxItems} :
         batch = [pc |-> "loop", item_ids |-> ids, visited |-> <<>>,
                  details |-> <<>>, histories |-> <<>>, returned |-> <<>>,
                  written |-> <<>>, results |-> <<>>, saved |-> {}, exc |-> "none"]

\* What one call of get_item_price_data did: it returned None, it returned
\* the price_data dict (of which price_history is kept here), or it raised.
Returned(kind, price_history) == [kind |-> kind, price_history |-> price_history]

\* One turn of `for item_id in item_ids`: get_item_price(item_id, item_name)
\* fetches the detail and the history, builds price_data, saves it and
\* returns it, or returns None, or lets an exception through; the loop
\* appends what is returned.  Each turn keeps what the two fetches gave,
\* what get_item_price_data did and the files get_item_price wrote.
GetItemPrice ==
    /\ batch.pc = "loop"
    /\ Len(batch.visited) < Len(batch.item_ids)
    /\ \E detail \in Details, history \in FetchedHistories :
         LET item_id == batch.item_ids[Len(batch.visited) + 1]
             seen == [batch EXCEPT !.visited = Append(@, item_id),
                                   !.details = Append(@, detail),
                                   !.histories = Append(@, history)]
         IN  IF ~detail.fetched
             THEN batch' = [seen EXCEPT
                              !.returned = Append(@, Returned("None", NoHistory)),
                              !.written = Append(@, {})]
             ELSE \E cp \in parse_price(detail.current), tp \in parse_price(detail.today) :
                    IF Raises(detail, history, cp, tp) # "none"
                    THEN batch' = [seen EXCEPT
                                     !.pc = "raised",
                                     !.exc = Raises(detail, history, cp, tp),
                                     !.returned = Append(@, Returned(
                                         Raises(detail, history, cp, tp), NoHistory)),
                                     !.written = Append(@, {})]
                    ELSE LET price_data == PriceData(item_id, NameGiven(item_id),
                                                     detail, history, cp, tp)
                         IN  batch' = [seen EXCEPT
                                         !.returned = Append(@, Returned(
                                             "dict", price_data.price_history)),
                                         !.written = Append(@, {ItemFile(price_data)}),
                                         !.results = Append(@, price_data),
                                         !.saved = @ \cup {ItemFile(price_data)}]
    /\ UNCHANGED <<pc, username, response, data, player_data, files>>
    /\ UNCHANGED <<ppc, price, price_str, parsed>>
    /\ UNCHANGED <<hist, resolver, calls, runs, checked>>

\* return results
ReturnResults ==
    /\ batch.pc = "loop"
    /\ Len(batch.visited) = Len(batch.item_ids)
    /\ batch' = [batch EXCEPT !.pc = "returned"]
    /\ UNCHANGED <<pc, username, response, data, player_data, files>>
    /\ UNCHANGED <<ppc, price, price_str, parsed>>
    /\ UNCHANGED <<hist, resolver, calls, runs, checked>>

NextBatch == GetItemPrice \/ ReturnResults

SpecBatch == InitBatch /\ [][NextBatch]_vars

\* The turns of the loop that fetched a detail: the observations.
Observed == {i \in 1..Len(batch.details) : batch.details[i].fetched}

\* Neither the caller nor the detail names the item of turn i.
NoMetadata(i) ==
    /\ batch.visited[i] \notin DOMAIN item_names
    /\ batch.details[i].name = NoName

UnknownItem(item_id) ==
    <<"U", "n", "k", "n", "o", "w", "n", " ", "I", "t", "e", "m", " ">> \o NatText(item_id)

\* The record r is the one of turn i, its price texts as fetched.
RecordOf(r, i) ==
    /\ r.item_id = batch.visited[i]
    /\ r.current_price.price_str = batch.details[i].current
    /\ r.today.price_str = batch.details[i].today

(* C15: the records of a batch are a left outer join of the observations   *)
(* with the names: a batch that returned has exactly one record per        *)
(* observation, in order, with the observation's price fields unchanged,   *)
(* and an item with no metadata is named "Unknown Item {id}".  (The claim  *)
(* as stated; the code refutes it.)                                        *)
C15_OneRecordPerObservation ==
    batch.pc = "returned" =>
        /\ Len(batch.results) = Cardinality(Observed)
        /\ \A i \in Observed :
             LET k == Cardinality({j \in Observed : j <= i})
             IN  /\ k <= Len(batch.results)
                 /\ RecordOf(batch.results[k], i)
                 /\ NoMetadata(i) =>
                      batch.results[k].item_name = UnknownItem(batch.visited[i])

\* What does hold of C15's case: one record per observation, never fewer,
\* never duplicated, the price texts unchanged, in every batch that returns.
OneRecordPerObservation ==
    batch.pc = "returned" =>
        /\ Len(batch.results) = Cardinality(Observed)
        /\ \A i \in Observed :
             RecordOf(batch.results[Cardinality({j \in Observed : j <= i})], i)

(* C16: batch processing always completes: whatever fetches fail and       *)
(* whatever the price texts are, get_multiple_item_prices never stops on   *)
(* an exception, and when it returns it has visited every id in input      *)
(* order.  (The claim as stated; the code refutes it.)                     *)
C16_BatchAlwaysCompletes ==
    /\ batch.pc # "raised"
    /\ batch.pc = "returned" => batch.visited = batch.item_ids

\* What does hold of C16's case: a batch that returns visited every id in
\* input order, and a failed fetch stops nothing.
ReturnedBatchVisitedAll ==
    /\ batch.pc = "returned" => batch.visited = batch.item_ids
    /\ batch.pc = "raised" =>
         batch.details[Len(batch.details)].fetched

\* The turns of the loop so far: the calls of get_item_price.
Turns == 1..Len(batch.returned)

\* get_item_price_data returned the price_data dict in turn i.
ReturnedRecord(i) == batch.returned[i].kind = "dict"

\* The detail fetch succeeded and the history fetch failed in turn i.
OnlyHistoryFailed(i) == batch.details[i].fetched /\ ~batch.histories[i].fetched

(* C21: get_item_price_data returns None exactly when the detail fetch     *)
(* fails, whatever the history fetch gave; when the detail fetch succeeds  *)
(* and the history fetch fails it returns a record whose price_history is  *)
(* None; and get_item_price writes a file exactly when                     *)
(* get_item_price_data returned a record.  (The claim as stated; the code  *)
(* refutes its second part.)                                               *)
C21_NoneOnlyWhenDetailFails ==
    \A i \in Turns :
        /\ batch.returned[i].kind = "None" <=> ~batch.details[i].fetched
        /\ OnlyHistoryFailed(i) =>
              /\ ReturnedRecord(i)
              /\ batch.returned[i].price_history = NoHistory
        /\ batch.written[i] # {} <=> ReturnedRecord(i)

\* What does hold of C21's case: None exactly for a failed detail fetch,
\* a file exactly for a record, and a call that returns after the history
\* fetch alone failed returns a record without a price history; what is
\* left is a call that raises, and only a fetched detail makes it raise.
NoneOrRecordUnlessRaised ==
    \A i \in Turns :
        /\ batch.returned[i].kind = "None" <=> ~batch.details[i].fetched
        /\ OnlyHistoryFailed(i) =>
              \/ /\ ReturnedRecord(i)
                 /\ batch.returned[i].price_history = NoHistory
              \/ /\ batch.returned[i].kind \in {"ValueError", "IndexError"}
                 /\ i = Len(batch.returned)
                 /\ batch.pc = "raised"
        /\ batch.written[i] # {} <=> ReturnedRecord(i)
        /\ batch.written[i] \subseteq batch.saved

\* A call that returned a record without a price history after the
\* history fetch failed, and wrote its file, is reachable.
RecordWithoutHistory ==
    \E i \in Turns :
        /\ OnlyHistoryFailed(i)
        /\ ReturnedRecord(i)
        /\ batch.returned[i].price_history = NoHistory
        /\ batch.written[i] # {}

-----------------------------------------------------------------------------
(* Two decodes in progress at once, one statement group at a time.  Each   *)
(* call of parse_hiscores_data or parse_price_history works on its own     *)
(* frame of locals.                                                        *)

\* The frame of a call that has not run a statement yet.
NewFrame(g) ==
    [kind |-> g.kind, input |-> g.input, pc |-> "start",
     lines |-> <<>>, k |-> 1, st |-> NewParse,
     series |-> "daily", points |-> <<>>, daily |-> <<>>,
     result |-> "none"]

\* The frame a step of call c works on: the locals of call c, and of no
\* other call.
FrameOfFirstCall(cs, c) == cs.frames[1]
Frame(cs, c) == cs.frames[c]

\* One turn of the three loops of parse_hiscores_data, on the k-th name of
\* the taxonomy.
HiscoresBody(f) ==
    IF f.k <= Len(skills) THEN SkillBody(f.st, skills[f.k], f.lines)
    ELSE IF f.k <= Len(skills) + Len(activities)
    THEN ActivityBody(f.st, activities[f.k - Len(skills)], f.lines)
    ELSE BossBody(f.st, bosses[f.k - Len(skills) - Len(activities)], f.lines)

\* The next statements of parse_hiscores_data: the split of the text, one
\* turn of a loop, or the return (the exception, when a turn raised).
HiscoresStep(f) ==
    IF f.pc = "start"
    THEN [f EXCEPT !.pc = "loop", !.lines = SplitLines(f.input)]
    ELSE IF f.k > TaxonomySize \/ f.st.exc # "none"
    THEN [f EXCEPT !.pc = "done", !.result = f.st]
    ELSE [f EXCEPT !.st = HiscoresBody(f), !.k = @ + 1]

\* The next statements of parse_price_history: one turn of the loop over a
\* series, the sort that follows the loop, or the return.
HistoryStep(f) ==
    LET entries == SeriesOf(f.input, f.series)
    IN  IF f.pc = "start" THEN [f EXCEPT !.pc = "loop"]
        ELSE IF f.k <= Len(entries)
        THEN IF PyInt(entries[f.k].key).ok
             THEN [f EXCEPT !.points = Append(@, HistoryPoint(entries[f.k])),
                            !.k = @ + 1]
             ELSE [f EXCEPT !.pc = "done",
                            !.result = [kind |-> "ValueError", daily |-> <<>>,
                                        average |-> <<>>]]
        ELSE IF f.series = "daily"
        THEN [f EXCEPT !.daily = SortByTimestamp(f.points, <<>>),
                       !.series = "average", !.points = <<>>, !.k = 1]
        ELSE [f EXCEPT !.pc = "done",
                       !.result = [kind |-> "dict", daily |-> f.daily,
                                   average |-> SortByTimestamp(f.points, <<>>)]]

DecodeStep(f) == IF f.kind = "hiscores" THEN HiscoresStep(f) ELSE HistoryStep(f)

\* The payloads the two calls are given: three hiscore texts (regular, a
\* short first line, a non-numeric field) and three histories.
Payloads ==
    { [kind |-> "hiscores", input |-> EncodeFeed(f, <<"LF">>)] :
        f \in { [k \in 1..TaxonomySize |-> IF k = 1 THEN l ELSE DefaultLine(k)] :
                  l \in {DefaultLine(1), OneField, NonNumeric} } }
    \cup
    { [kind |-> "history", input |-> h] :
        h \in { [daily |-> <<Entry(<<"2", "0", "0", "0">>, 110),
                            Entry(<<"1", "0", "0", "0">>, 100)>>,
                 average |-> <<Entry(<<"1", "0", "0", "0">>, 100)>>],
                [daily |-> <<Entry(<<"1", "0", "0", "0">>, 100)>>],
                [daily |-> <<Entry(<<"1", "0", "0", "0">>, 100),
                            Entry(<<"x">>, 100)>>] } }

InitCalls ==
    /\ HiscoreIdle
    /\ PriceIdle
    /\ hist = Idle /\ resolver = Idle /\ batch = Idle /\ runs = Idle /\ checked = Idle
    /\ \E g1, g2 \in Payloads :
         /\ g1 # g2
         /\ calls = [given |-> <<g1, g2>>,
                     frames |-> <<NewFrame(g1), NewFrame(g2)>>,
                     interleaved |-> FALSE]

\* Call c runs its next statements; the other call is where it was.
Step(c) ==
    /\ calls.frames[c].pc # "done"
    /\ calls' = [calls EXCEPT
                   !.frames[c] = DecodeStep(Frame(calls, c)),
                   !.interleaved = @ \/ calls.frames[3 - c].pc = "loop"]
    /\ UNCHANGED <<pc, username, response, data, player_data, files>>
    /\ UNCHANGED <<ppc, price, price_str, parsed>>
    /\ UNCHANGED <<hist, resolver, batch, runs, checked>>

NextCalls == \E c \in {1, 2} : Step(c)

SpecCalls == InitCalls /\ [][NextCalls]_vars

\* What a decode returns, or raises, when it runs alone.
Alone(g) ==
    IF g.kind = "hiscores" THEN parse_hiscores_data(g.input)
    ELSE parse_price_history(g.input)

-----------------------------------------------------------------------------
(* The order of the steps of get_skills.                                   *)

NoFileWritten == DOMAIN files = {}

(* C18: in get_skills validation precedes fetching and fetching precedes   *)
(* saving: with an invalid username no request is made and no file is      *)
(* written; when the fetch fails (or the decode raises) no file is         *)
(* written; a file exists only after a fetch that was answered and a       *)
(* decode that returned the dict being saved.                              *)
C18_ValidateFetchSaveInOrder ==
    /\ ~validate_username(username) =>
         /\ pc \in {"validate", "returned"}
         /\ response = NoResponse
         /\ NoFileWritten
    /\ response.status \in {"none", "RequestException", "not200"} => NoFileWritten
    /\ pc = "raised" => NoFileWritten
    /\ ~NoFileWritten =>
         /\ Answered /\ pc \in {"save_csv", "done"}
         /\ parse_hiscores_data(data).exc = "none"
         /\ player_data.skills = parse_hiscores_data(data).skills
         /\ files[SkillStatsPath] = player_data.skills

\* A run that validated, fetched, decoded and wrote all its files.
C18_Witness ==
    /\ pc = "done"
    /\ validate_username(username)
    /\ Answered
    /\ SkillStatsPath \in DOMAIN files
    /\ UserPath(sanitize_username(username), "_skills.csv") \in DOMAIN files

-----------------------------------------------------------------------------
(* Two get_skills runs for different usernames over one backend/           *)
(* directory, one file write at a time.                                    *)

RunUsernames == << <<"a", "b">>, <<"a", "Z">> >>

\* The texts the service answers a run with: the regular feed, the feed
\* whose first line is unranked, and a feed with a non-numeric field.
RunTexts ==
    { EncodeFeed([k \in 1..TaxonomySize |-> IF k = 1 THEN l ELSE DefaultLine(k)],
                 <<"LF">>) : l \in {DefaultLine(1), Unranked3, NonNumeric} }

\* player_data before get_player_data returned a dict.
NoData == [skills |-> <<>>, activities |-> <<>>, bosses |-> <<>>]

\* A run is between its first and its last file write.
Saving(run) == run.pc \in {"save_stats", "save_complete", "save_csv"}

InitRuns ==
    /\ HiscoreIdle
    /\ PriceIdle
    /\ hist = Idle /\ resolver = Idle /\ batch = Idle /\ calls = Idle /\ checked = Idle
    /\ runs = [run |-> [r \in {1, 2} |->
                          [pc |-> "start", username |-> RunUsernames[r],
                           player_data |-> NoData]],
               files |-> <<>>, last |-> 0, overlapped |-> FALSE]

\* What a step of run r leaves of the bookkeeping: the runs overlapped if
\* the other run is in the middle of its writes.
Stepped(r, run) ==
    [runs EXCEPT !.run[r] = run,
                 !.overlapped = @ \/ Saving(runs.run[3 - r])]

\* get_skills up to its first write: the validation, and get_player_data
\* with its three outcomes.
RunFetch(r) ==
    /\ runs.run[r].pc = "start"
    /\ \/ runs' = Stepped(r, [runs.run[r] EXCEPT !.pc = "returned"])
       \/ /\ validate_username(runs.run[r].username)
          /\ \E text \in RunTexts :
               LET st == parse_hiscores_data(text)
               IN  IF st.exc = "none"
                   THEN runs' = Stepped(r, [runs.run[r] EXCEPT
                                 !.pc = "save_stats",
                                 !.player_data = [skills |-> st.skills,
                                                  activities |-> st.activities,
                                                  bosses |-> st.bosses]])
                   ELSE runs' = Stepped(r, [runs.run[r] EXCEPT !.pc = "raised"])
    /\ UNCHANGED <<pc, username, response, data, player_data, files>>
    /\ UNCHANGED <<ppc, price, price_str, parsed>>
    /\ UNCHANGED <<hist, resolver, batch, calls, checked>>

\* save_to_json, its write of backend/skill_stats.json.
RunWriteSkillStats(r) ==
    /\ runs.run[r].pc = "save_stats"
    /\ runs' = [Stepped(r, [runs.run[r] EXCEPT !.pc = "save_complete"]) EXCEPT
                  !.files = WriteSkillStatsFile(runs.files, runs.run[r].player_data)]
    /\ UNCHANGED <<pc, username, response, data, player_data, files>>
    /\ UNCHANGED <<ppc, price, price_str, parsed>>
    /\ UNCHANGED <<hist, resolver, batch, calls, checked>>

\* save_to_json, its write of backend/{username}_complete_data.json.
RunWriteCompleteData(r) ==
    /\ runs.run[r].pc = "save_complete"
    /\ runs' = [Stepped(r, [runs.run[r] EXCEPT !.pc = "save_csv"]) EXCEPT
                  !.files = WriteCompleteDataFile(runs.files, runs.run[r].player_data,
                                                  runs.run[r].username)]
    /\ UNCHANGED <<pc, username, response, data, player_data, files>>
    /\ UNCHANGED <<ppc, price, price_str, parsed>>
    /\ UNCHANGED <<hist, resolver, batch, calls, checked>>

\* save_to_csv, and the end of the run: r is the run that saved last.
RunSaveCsv(r) ==
    /\ runs.run[r].pc = "save_csv"
    /\ runs' = [Stepped(r, [runs.run[r] EXCEPT !.pc = "done"]) EXCEPT
                  !.files = save_to_csv(runs.files, runs.run[r].player_data,
                                        runs.run[r].username),
                  !.last = r]
    /\ UNCHANGED <<pc, username, response, data, player_data, files>>
    /\ UNCHANGED <<ppc, price, price_str, parsed>>
    /\ UNCHANGED <<hist, resolver, batch, calls, checked>>

NextRuns ==
    \E r \in {1, 2} :
        \/ RunFetch(r)
        \/ RunWriteSkillStats(r)
        \/ RunWriteCompleteData(r)
        \/ RunSaveCsv(r)

SpecRuns == InitRuns /\ [][NextRuns]_vars

\* No run is between its start and its end, and one has saved.
NoRunInProgress ==
    /\ \A r \in {1, 2} : runs.run[r].pc \in {"start", "returned", "raised", "done"}
    /\ runs.last # 0

\* The complete-data file of the run that finished saving last.
LastCompleteData ==
    runs.files[UserPath(sanitize_username(runs.run[runs.last].username),
                        "_complete_data.json")]

(* C19: whenever no get_skills run is in progress, backend/skill_stats.json *)
(* holds the skills of the complete-data file of the run that finished     *)
(* saving last, for every sequence and every interleaving of runs for      *)
(* different usernames.  (The claim as stated; the code refutes it.)       *)
C19_SkillStatsOfLastRun ==
    NoRunInProgress => runs.files[SkillStatsPath] = LastCompleteData.skills

\* What does hold of C19's case: the same when no run started or wrote
\* while the other was between its first and its last write.
SkillStatsOfLastRunInSequence ==
    (NoRunInProgress /\ ~runs.overlapped) =>
        runs.files[SkillStatsPath] = LastCompleteData.skills

-----------------------------------------------------------------------------
(* validate_username and sanitize_username on every short username.        *)

\* A username drawn character by character has at most this many.
MaxNameLen == 3

UsernameChars == {"a", "_", " ", "!", "LF"}

RECURSIVE NamesOfLen(_)
NamesOfLen(n) ==
    IF n = 0 THEN {<<>>}
    ELSE {Append(u, c) : u \in NamesOfLen(n - 1), c \in UsernameChars}

\* A username of n letters, and the same with a final newline.
Letters(n) == [i \in 1..n |-> "a"]

\* The usernames applied to: the short ones, and those around the limit of
\* 12 characters.
CheckedNames ==
    UNION {NamesOfLen(n) : n \in 0..MaxNameLen}
    \cup {Letters(n) : n \in (MaxUsernameLen - 1)..(MaxUsernameLen + 1)}
    \cup {Append(Letters(n), "LF") : n \in (MaxUsernameLen - 1)..MaxUsernameLen}

InitCheck ==
    /\ HiscoreIdle
    /\ PriceIdle
    /\ hist = Idle /\ resolver = Idle /\ batch = Idle /\ calls = Idle /\ runs = Idle
    /\ \E u \in CheckedNames :
         checked = [pc |-> "call", username |-> u, valid |-> FALSE,
                    sanitized |-> <<>>, path |-> SkillStatsPath]

\* validate_username(username), sanitize_username(username) and the path
\* save_to_json makes of it.
CheckUsername ==
    /\ checked.pc = "call"
    /\ checked' = [checked EXCEPT
                     !.pc = "done",
                     !.valid = validate_username(checked.username),
                     !.sanitized = sanitize_username(checked.username),
                     !.path = UserPath(sanitize_username(checked.username),
                                       "_complete_data.json")]
    /\ UNCHANGED <<pc, username, response, data, player_data, files>>
    /\ UNCHANGED <<ppc, price, price_str, parsed>>
    /\ UNCHANGED <<hist, resolver, batch, calls, runs>>

NextCheck == CheckUsername

SpecCheck == InitCheck /\ [][NextCheck]_vars

(* C20: every username validate_username accepts is left unchanged by     *)
(* sanitize_username, so no other accepted username is saved under the     *)
(* same file name.  (The claim as stated; the code refutes it.)            *)
C20_AcceptedUsernameUnchanged ==
    (checked.pc = "done" /\ checked.valid) =>
        /\ checked.sanitized = checked.username
        /\ \A v \in CheckedNames :
             (v # checked.username /\ validate_username(v)) =>
                 UserPath(sanitize_username(v), "_complete_data.json") # checked.path

\* What does hold of C20's case: the same for the accepted usernames that
\* do not end in a newline.
AcceptedUsernameWithoutNewlineUnchanged ==
    (checked.pc = "done" /\ checked.valid
       /\ checked.username[Len(checked.username)] # "LF") =>
        /\ checked.sanitized = checked.username
        /\ \A v \in CheckedNames :
             (v # checked.username /\ validate_username(v) /\ v[Len(v)] # "LF") =>
                 UserPath(sanitize_username(v), "_complete_data.json") # checked.path

=============================================================================
